---------------------------- MODULE Spec2Model ----------------------------
(***************************************************************************)
(* A model of go-money: the Money facade (money.go), the arithmetic        *)
(* engine (internal/calc), the rendering engine and the format             *)
(* configuration store (format.go).                                        *)
(*                                                                         *)
(* Amounts are signed 64-bit integers and the decimal engine works on      *)
(* unsigned 64-bit coefficients of up to 19 digits with big-integer        *)
(* fallbacks.  TLC's own integers are 32 bits wide, so every such number   *)
(* is kept at its full width as a sequence of decimal digits, most         *)
(* significant first, without leading zeros (<<>> is 0).  A signed number  *)
(* is a record [neg, mag].                                                 *)
(***************************************************************************)
EXTENDS Integers, Sequences, FiniteSets, TLC

(***************************************************************************)
(* Unbounded naturals as digit sequences.                                  *)
(***************************************************************************)
MinOf(S) == CHOOSE i \in S : \A j \in S : i <= j

MaxOf(S) == CHOOSE i \in S : \A j \in S : j <= i

\* a function over 1..n as the tuple of its values, each computed once
Tuple(f) == f \o <<>>

Zeros(k) == Tuple([i \in 1..k |-> 0])

Norm(s) ==
  LET nz == {i \in 1..Len(s) : s[i] # 0}
  IN  IF nz = {} THEN <<>> ELSE SubSeq(s, MinOf(nz), Len(s))

RECURSIVE NFromSmall(_)
NFromSmall(n) == IF n = 0 THEN <<>> ELSE Append(NFromSmall(n \div 10), n % 10)

NCmp(a, b) ==
  LET diff == {i \in 1..Len(a) : a[i] # b[i]}
      at   == MinOf(diff)
  IN  IF Len(a) # Len(b) THEN (IF Len(a) < Len(b) THEN -1 ELSE 1)
      ELSE IF diff = {} THEN 0
      ELSE IF a[at] < b[at] THEN -1 ELSE 1

NLe(a, b) == NCmp(a, b) <= 0

NLt(a, b) == NCmp(a, b) < 0

\* Sums, differences and products are computed several digits at a time
\* and without recursion: a number is cut into limbs of w digits, least
\* significant first, and the carry into a limb is found by looking at the
\* limbs below it.  Sums work on limbs of 8 digits, products on limbs of 4,
\* so that every intermediate value stays below 2^31.
PowersOf10 == <<1, 10, 100, 1000, 10000, 100000, 1000000, 10000000, 100000000>>

High(a) == SubSeq(a, 1, Len(a) \div 2)

Low(a) == SubSeq(a, Len(a) \div 2 + 1, Len(a))

\* the number a sequence of at most nine digits stands for
IntOf(s) ==
  LET n == Len(s)
      at(o) == IF o < n THEN s[n - o] ELSE 0
  IN  at(0) + 10 * at(1) + 100 * at(2) + 1000 * at(3) + 10000 * at(4)
        + 100000 * at(5) + 1000000 * at(6) + 10000000 * at(7) + 100000000 * at(8)

\* a number of limbs of w digits that holds a and b with a limb to spare
LimbCount(a, b, w) == (MaxOf({Len(a), Len(b)}) \div w) + 1

\* the n least significant limbs of w digits of a
Limbs(a, n, w) ==
  LET l == Len(a)
  IN  Tuple([j \in 1..n |->
               IF l - w * (j - 1) <= 0 THEN 0
               ELSE IntOf(SubSeq(a, MaxOf({1, l - w * j + 1}), l - w * (j - 1)))])

\* the digits of a sequence of limbs of w digits
FromLimbs(ls, w) ==
  LET n == w * Len(ls)
  IN  Norm(Tuple([i \in 1..n |->
                    (ls[((n - i) \div w) + 1] \div PowersOf10[((n - i) % w) + 1]) % 10]))

\* the sum of two sequences of n limbs below base, in n limbs (the operands
\* leave the top limb free): a carry enters limb j when a limb k below it
\* overflows and every limb between them is full
LimbsAdd(as, bs, base) ==
  LET n == Len(as)
      g == Tuple([j \in 1..n |-> as[j] + bs[j]])
      c == [j \in 1..n |->
              IF \E k \in 1..(j - 1) : g[k] >= base /\ \A t \in (k + 1)..(j - 1) : g[t] = base - 1
              THEN 1 ELSE 0]
  IN  Tuple([j \in 1..n |-> (g[j] + c[j]) % base])

\* the difference of two sequences of n limbs, the first the larger number
LimbsSub(as, bs, base) ==
  LET n == Len(as)
      g == Tuple([j \in 1..n |-> as[j] - bs[j]])
      c == [j \in 1..n |->
              IF \E k \in 1..(j - 1) : g[k] < 0 /\ \A t \in (k + 1)..(j - 1) : g[t] = 0
              THEN 1 ELSE 0]
  IN  Tuple([j \in 1..n |-> (g[j] - c[j] + base) % base])

NAdd(a, b) ==
  LET n == LimbCount(a, b, 8)
  IN  FromLimbs(LimbsAdd(Limbs(a, n, 8), Limbs(b, n, 8), 100000000), 8)

\* a - b for a >= b
NSub(a, b) ==
  LET n == LimbCount(a, b, 8)
  IN  FromLimbs(LimbsSub(Limbs(a, n, 8), Limbs(b, n, 8), 100000000), 8)

\* the limbs xs times a digit k: the low parts of the limb products plus
\* their high parts one limb up
LimbsScale(xs, k, base) ==
  LET n == Len(xs)
      p == Tuple([j \in 1..n |-> xs[j] * k])
  IN  LimbsAdd(Tuple([j \in 1..n |-> p[j] % base]),
               Tuple([j \in 1..n |-> IF j = 1 THEN 0 ELSE p[j - 1] \div base]), base)

\* a * k for a digit k
NMulSmall(a, k) ==
  IF k = 0 \/ a = <<>> THEN <<>>
  ELSE FromLimbs(LimbsScale(Limbs(a, LimbCount(a, a, 8), 8), k, 100000000), 8)

NShl(a, k) == IF a = <<>> \/ k <= 0 THEN a ELSE a \o Zeros(k)

NShr(a, k) == IF k <= 0 THEN a ELSE IF Len(a) <= k THEN <<>> ELSE SubSeq(a, 1, Len(a) - k)

NLow(a, k) ==
  IF k <= 0 THEN <<>>
  ELSE IF Len(a) <= k THEN a
  ELSE Norm(SubSeq(a, Len(a) - k + 1, Len(a)))

\* f[i] + ... + f[Len(f)], eight terms at a time
RECURSIVE SumFrom(_, _)
SumFrom(f, i) ==
  LET at(k) == IF k <= Len(f) THEN f[k] ELSE 0
  IN  IF i > Len(f) THEN 0
      ELSE (((at(i) + at(i + 1)) + (at(i + 2) + at(i + 3)))
             + ((at(i + 4) + at(i + 5)) + (at(i + 6) + at(i + 7))))
           + SumFrom(f, i + 8)

\* the product of two sequences of n limbs of 4 digits: column k of the long
\* multiplication is the sum of the products xs[i] * ys[k + 1 - i]; a
\* column is below 2^31 for operands of up to 80 digits, and its three parts
\* of four digits go to limbs k, k + 1 and k + 2
LimbsMul(xs, ys) ==
  LET n   == Len(xs)
      col == Tuple([k \in 1..n |-> SumFrom(Tuple([i \in 1..k |-> xs[i] * ys[k + 1 - i]]), 1)])
  IN  LimbsAdd(LimbsAdd(Tuple([k \in 1..n |-> col[k] % 10000]),
                        Tuple([k \in 1..n |-> IF k < 2 THEN 0 ELSE (col[k - 1] \div 10000) % 10000]),
                        10000),
               Tuple([k \in 1..n |-> IF k < 3 THEN 0 ELSE col[k - 2] \div 100000000]),
               10000)

NMul(a, b) ==
  LET n == LimbCount(a, a, 4) + LimbCount(b, b, 4)
  IN  IF a = <<>> \/ b = <<>> THEN <<>>
      ELSE FromLimbs(LimbsMul(Limbs(a, n, 4), Limbs(b, n, 4)), 4)

\* How often b can be taken from r < 10*b.  With the digits of b after its
\* first eight dropped from both, the quotient of what is left is the digit
\* or one more than the digit
QuoEstimate(r, b) ==
  LET k == MaxOf({0, Len(b) - 8})
  IN  MinOf({9, IntOf(SubSeq(r, 1, Len(r) - k)) \div IntOf(SubSeq(b, 1, Len(b) - k))})

\* the digit d and the remainder r - d*b, from the estimate h and p = h*b
QuoTake(r, b, h, p) ==
  IF NLe(p, r) THEN [d |-> h, r |-> NSub(r, p)]
  ELSE [d |-> h - 1, r |-> NSub(NAdd(r, b), p)]

QuoDigit(r, b) ==
  IF Len(r) < Len(b) THEN [d |-> 0, r |-> r]
  ELSE QuoTake(r, b, QuoEstimate(r, b), NMulSmall(b, QuoEstimate(r, b)))

\* the next step of a long division by b that has reached [q, r]: the
\* digit is brought down to the remainder and the quotient digit found
NDivStep(st, digit, b) ==
  LET s == QuoDigit(IF st.r = <<>> /\ digit = 0 THEN <<>> ELSE Append(st.r, digit), b)
  IN  [q |-> Append(st.q, s.d), r |-> s.r]

\* long division by b continued from [q, r] over the digits a, most
\* significant first: the high half of the digits, then the low half (the
\* condition on st.q has the division so far done before this one starts)
RECURSIVE NDivFrom(_, _, _)
NDivFrom(a, b, st) ==
  IF Len(st.q) >= 0 /\ Len(a) > 1 THEN NDivFrom(Low(a), b, NDivFrom(High(a), b, st))
  ELSE IF Len(a) = 1 THEN NDivStep(st, a[1], b)
  ELSE st

NDivEnd(st) == [q |-> Norm(st.q), r |-> st.r]

\* truncated quotient and remainder of a by b, b # 0
NDivMod(a, b) == NDivEnd(NDivFrom(a, b, [q |-> <<>>, r |-> <<>>]))

NQuo(a, b) == NDivMod(a, b).q

Pow10(k) == <<1>> \o Zeros(k)

NIsOdd(a) == a # <<>> /\ a[Len(a)] % 2 = 1

(***************************************************************************)
(* Signed numbers.                                                         *)
(***************************************************************************)
Signed(neg, mag) == [neg |-> neg /\ mag # <<>>, mag |-> mag]

IZero == Signed(FALSE, <<>>)

INeg(x) == Signed(~x.neg, x.mag)

IAdd(x, y) ==
  IF x.neg = y.neg THEN Signed(x.neg, NAdd(x.mag, y.mag))
  ELSE IF NLe(y.mag, x.mag) THEN Signed(x.neg, NSub(x.mag, y.mag))
  ELSE Signed(y.neg, NSub(y.mag, x.mag))

ISub(x, y) == IAdd(x, INeg(y))

IMul(x, y) == Signed(x.neg # y.neg, NMul(x.mag, y.mag))

ICmp(x, y) ==
  IF x.neg # y.neg THEN (IF x.neg THEN -1 ELSE 1)
  ELSE IF x.neg THEN NCmp(y.mag, x.mag) ELSE NCmp(x.mag, y.mag)

ILt(x, y) == ICmp(x, y) < 0

ILe(x, y) == ICmp(x, y) <= 0

ISmall(n) == IF n < 0 THEN Signed(TRUE, NFromSmall(-n)) ELSE Signed(FALSE, NFromSmall(n))

(***************************************************************************)
(* The 64-bit integer types of the program.                                *)
(***************************************************************************)
MaxInt64Mag == <<9,2,2,3,3,7,2,0,3,6,8,5,4,7,7,5,8,0,7>>

MinInt64Mag == <<9,2,2,3,3,7,2,0,3,6,8,5,4,7,7,5,8,0,8>>

TwoTo64 == <<1,8,4,4,6,7,4,4,0,7,3,7,0,9,5,5,1,6,1,6>>

MaxInt64 == Signed(FALSE, MaxInt64Mag)

MinInt64 == Signed(TRUE, MinInt64Mag)

InInt64(x) == ILe(MinInt64, x) /\ ILe(x, MaxInt64)

\* the int64 a Go expression leaves when its mathematical value is x
\* (two's complement wrap-around, for x within one period of the range)
WrapInt64(x) ==
  IF ILt(MaxInt64, x) THEN ISub(x, Signed(FALSE, TwoTo64))
  ELSE IF ILt(x, MinInt64) THEN IAdd(x, Signed(FALSE, TwoTo64))
  ELSE x

(***************************************************************************)
(* github.com/govalues/decimal, as internal/calc uses it: a decimal is a   *)
(* sign, an unsigned coefficient of at most MaxPrec digits and a scale in  *)
(* MinScale..MaxScale.  Every fallible operation returns [ok, v].          *)
(***************************************************************************)
MaxPrec == 19

MinScale == 0

MaxScale == 19

maxFint == [i \in 1..MaxPrec |-> 9]

Fail == [ok |-> FALSE, v |-> IZero]

Ok(v) == [ok |-> TRUE, v |-> v]

newUnsafe(neg, coef, scale) == [neg |-> neg /\ coef # <<>>, coef |-> coef, scale |-> scale]

DecZero == newUnsafe(FALSE, <<>>, 0)

DFail == [ok |-> FALSE, v |-> DecZero]

\* the first result when it is one, the second otherwise
OrElse(f, g) == IF f.ok THEN f ELSE g

newSafe(neg, coef, scale) ==
  IF scale < MinScale \/ scale > MaxScale THEN DFail
  ELSE IF NLt(maxFint, coef) THEN DFail
  ELSE Ok(newUnsafe(neg, coef, scale))

\* z = x \div 10^shift and r = x % 10^shift, rounded half to even
roundHalfEven(z, r, shift) ==
  IF NLt(<<5>> \o Zeros(shift - 1), r) \/ (r = <<5>> \o Zeros(shift - 1) /\ NIsOdd(z))
  THEN NAdd(z, <<1>>)
  ELSE z

\* x / 10^shift, rounded half to even
rshHalfEven(x, shift) ==
  IF x = <<>> THEN <<>>
  ELSE IF shift <= 0 THEN x
  ELSE roundHalfEven(NShr(x, shift), NLow(x, shift), shift)

newFromFint(neg, coef, scale, minScale) ==
  IF scale < minScale
  THEN IF NLt(maxFint, NShl(coef, minScale - scale)) THEN DFail
       ELSE newSafe(neg, NShl(coef, minScale - scale), minScale)
  ELSE IF scale > MaxScale
  THEN newSafe(neg, rshHalfEven(coef, scale - MaxScale), MaxScale)
  ELSE newSafe(neg, coef, scale)

\* newFromBint: the scale is normalised, and the normalised coefficient goes
\* through again in the rare case that rounding made it one digit longer
RECURSIVE newFromBint(_, _, _, _)
normalised(neg, coef, scale, minScale) ==
  IF Len(coef) > MaxPrec THEN newFromBint(neg, coef, scale, minScale)
  ELSE newSafe(neg, coef, scale)

newFromBint(neg, coef, scale, minScale) ==
  LET prec == Len(coef)
  IN  IF prec - scale > MaxPrec - minScale THEN DFail
      ELSE IF scale < minScale
        THEN normalised(neg, NShl(coef, minScale - scale), minScale, minScale)
      ELSE IF scale >= prec /\ scale > MaxScale
        THEN normalised(neg, rshHalfEven(coef, scale - MaxScale), MaxScale, minScale)
      ELSE IF prec > scale /\ prec > MaxPrec
        THEN normalised(neg, rshHalfEven(coef, prec - MaxPrec), MaxPrec - prec + scale, minScale)
      ELSE normalised(neg, coef, scale, minScale)

\* decimal.New(value, scale)
DecimalNew(value, scale) == newSafe(value.neg, value.mag, scale)

DecNeg(d) == newUnsafe(~d.neg, d.coef, d.scale)

DecSign(d) == IF d.coef = <<>> THEN 0 ELSE IF d.neg THEN -1 ELSE 1

\* the coefficients of d and e brought to the larger of the two scales
Aligned(d, e) ==
  LET s == MaxOf({d.scale, e.scale})
  IN  [s |-> s, dc |-> NShl(d.coef, s - d.scale), ec |-> NShl(e.coef, s - e.scale)]

\* the signed sum of the aligned coefficients
AddCoef(d, e) ==
  LET a == Aligned(d, e)
  IN  [s |-> a.s, sum |-> IAdd(Signed(d.neg, a.dc), Signed(e.neg, a.ec)),
       fits |-> NLe(a.dc, maxFint) /\ NLe(a.ec, maxFint)]

\* addFint and addBint, from the sum a of the operands
addFint(a, minScale) ==
  IF ~a.fits \/ NLt(maxFint, a.sum.mag) THEN DFail
  ELSE newFromFint(a.sum.neg, a.sum.mag, a.s, minScale)

addBint(a, minScale) == newFromBint(a.sum.neg, a.sum.mag, a.s, minScale)

\* Decimal.AddExact(e, scale); Decimal.Add(e) is AddExact(e, 0)
AddExact(d, e, scale) ==
  IF scale < MinScale \/ scale > MaxScale THEN DFail
  ELSE OrElse(addFint(AddCoef(d, e), scale), addBint(AddCoef(d, e), scale))

\* Decimal.Sub(e) is SubExact(e, 0), the sum with e negated
SubExact(d, e, scale) == AddExact(d, DecNeg(e), scale)

\* mulFint and mulBint, from the product c of the coefficients
mulFint(d, e, c, minScale) ==
  IF NLt(maxFint, c) THEN DFail
  ELSE newFromFint(d.neg # e.neg, c, d.scale + e.scale, minScale)

mulBint(d, e, c, minScale) == newFromBint(d.neg # e.neg, c, d.scale + e.scale, minScale)

\* Decimal.MulExact(e, scale)
MulExact(d, e, scale) ==
  IF scale < MinScale \/ scale > MaxScale THEN DFail
  ELSE OrElse(mulFint(d, e, NMul(d.coef, e.coef), scale),
              mulBint(d, e, NMul(d.coef, e.coef), scale))

\* the quotient to 2*MaxPrec further digits, truncated, then brought back to
\* at most MaxPrec digits and at most MaxScale fractional digits, half to even
quoBint(d, e, minScale) ==
  newFromBint(d.neg # e.neg, NQuo(NShl(d.coef, 2 * MaxPrec + e.scale), e.coef),
              2 * MaxPrec + d.scale, minScale)

\* Decimal.QuoExact(e, scale): an exact quotient is returned as it is, any
\* other is rounded by quoBint
QuoExact(d, e, scale) ==
  IF scale < MinScale \/ scale > MaxScale THEN DFail
  ELSE IF e.coef = <<>> THEN DFail
  ELSE IF d.coef = <<>>
    THEN newSafe(FALSE, <<>>, MaxOf({scale, d.scale - e.scale}))
  ELSE quoBint(d, e, scale)

\* Decimal.Cmp(e)
DecCmp(d, e) ==
  IF DecSign(d) > DecSign(e) THEN 1
  ELSE IF DecSign(d) < DecSign(e) THEN -1
  ELSE ICmp(Signed(d.neg, Aligned(d, e).dc), Signed(e.neg, Aligned(d, e).ec))

\* Decimal.Round(scale)
DecRound(d, scale) ==
  IF MaxOf({MinScale, scale}) >= d.scale THEN d
  ELSE newUnsafe(d.neg, rshHalfEven(d.coef, d.scale - MaxOf({MinScale, scale})),
                 MaxOf({MinScale, scale}))

I64Fail == [ok |-> FALSE, whole |-> IZero, frac |-> IZero]

\* the whole part q and the fractional part r of a decimal of sign neg
partsInt64(neg, q, r) ==
  LET lim == IF neg THEN MinInt64Mag ELSE MaxInt64Mag
  IN  IF NLt(maxFint, r) THEN I64Fail
      ELSE IF NLt(lim, q) \/ NLt(lim, r) THEN I64Fail
      ELSE [ok |-> TRUE, whole |-> Signed(neg, q), frac |-> Signed(neg, r)]

\* the coefficient x at k fractional digits cut into its parts, the
\* fractional part brought to the scale asked for
quoRemInt64(neg, x, k, shift) == partsInt64(neg, NShr(x, k), NShl(NLow(x, k), shift))

\* Decimal.Int64(scale): the whole and the fractional part, each an int64
DecInt64(d, scale) ==
  IF scale < MinScale \/ scale > MaxScale THEN I64Fail
  ELSE IF scale < d.scale
    THEN quoRemInt64(d.neg, rshHalfEven(d.coef, d.scale - scale), scale, 0)
  ELSE quoRemInt64(d.neg, d.coef, d.scale, scale - d.scale)

(***************************************************************************)
(* internal/calc: the overflow-checked primitives and round-to-minor.      *)
(***************************************************************************)
\* The loop multiplies v by 10 scale times, v being 10^i when iteration i
\* starts, and gives up in the iteration that finds v > MaxInt64/10
pow10Int64(scale) ==
  IF scale < 0 THEN Fail
  ELSE IF \E i \in 0..(scale - 1) : NLt(NShr(MaxInt64Mag, 1), Pow10(i)) THEN Fail
  ELSE Ok(Signed(FALSE, Pow10(scale)))

absInt64(x) == x.mag

mulInt64(a, b) ==
  IF a = IZero \/ b = IZero THEN Ok(IZero)
  ELSE IF a = MinInt64 /\ b = ISmall(1) THEN Ok(MinInt64)
  ELSE IF a = MinInt64 /\ b = ISmall(-1) THEN Fail
  ELSE IF b = MinInt64 /\ a = ISmall(1) THEN Ok(MinInt64)
  ELSE IF b = MinInt64 /\ a = ISmall(-1) THEN Fail
  ELSE IF NLt(NQuo(MaxInt64Mag, absInt64(b)), absInt64(a)) THEN Fail
  ELSE Ok(Signed(a.neg # b.neg, NMul(absInt64(a), absInt64(b))))

addInt64(a, b) ==
  IF ILt(IZero, b) /\ ILt(ISub(MaxInt64, b), a) THEN Fail
  ELSE IF ILt(b, IZero) /\ ILt(a, ISub(MinInt64, b)) THEN Fail
  ELSE Ok(IAdd(a, b))

\* the last two steps of combineInt64, from the factor and from the product
combineProd(prod, frac) == IF ~prod.ok THEN Fail ELSE addInt64(prod.v, frac)

combineFactor(whole, frac, factor) ==
  IF ~factor.ok THEN Fail ELSE combineProd(mulInt64(whole, factor.v), frac)

combineInt64(whole, frac, scale) ==
  IF scale < 0 THEN Fail
  ELSE IF scale = 0 THEN Ok(whole)
  ELSE combineFactor(whole, frac, pow10Int64(scale))

\* roundToMinor from the parts that Int64 gave
combineParts(p, scale) == IF ~p.ok THEN Fail ELSE combineInt64(p.whole, p.frac, scale)

roundToMinor(d, scale) == combineParts(DecInt64(DecRound(d, scale), scale), scale)

Round(d, scale) == roundToMinor(d, scale)

(***************************************************************************)
(* internal/calc: the arithmetic engine.  The methods of amount take the   *)
(* results [ok, v] of the steps before them: a failed operand fails the    *)
(* step, as the early returns of the code do.                              *)
(***************************************************************************)
newAmount(value, scale) == DecimalNew(value, scale)

percentMultiplier(percent, add) ==
  DecimalNew(WrapInt64(IF add THEN IAdd(ISmall(100), percent) ELSE ISub(ISmall(100), percent)), 2)

\* amount.add
add(a, b) == IF ~a.ok \/ ~b.ok THEN DFail ELSE AddExact(a.v, b.v, 0)

\* amount.sub
sub(a, b) == IF ~a.ok \/ ~b.ok THEN DFail ELSE SubExact(a.v, b.v, 0)

\* amount.multiply
multiply(a, mult) ==
  IF ~a.ok \/ ~mult.ok THEN DFail
  ELSE IF a.v.scale + mult.v.scale > MaxScale THEN DFail
  ELSE MulExact(a.v, mult.v, a.v.scale + mult.v.scale)

\* divide with a zero divisor let through: the dividend comes back
divideUnchecked(a, div, scale) ==
  IF ~a.ok \/ ~div.ok THEN DFail
  ELSE IF div.v.coef = <<>> THEN a
  ELSE QuoExact(a.v, div.v, scale)

\* amount.divide
divide(a, div, scale) == IF ~a.ok \/ ~div.ok THEN DFail ELSE QuoExact(a.v, div.v, scale)

addPercent(a, percent) == multiply(a, percentMultiplier(percent, TRUE))

subtractPercent(a, percent) == multiply(a, percentMultiplier(percent, FALSE))

\* Round(out.dec, scale) after the step that gave out
rounded(out, scale) == IF ~out.ok THEN Fail ELSE Round(out.v, scale)

calcAdd(a, b, scale) == rounded(add(newAmount(a, scale), newAmount(b, scale)), scale)

calcSub(a, b, scale) == rounded(sub(newAmount(a, scale), newAmount(b, scale)), scale)

calcAddPercent(value, percent, scale) ==
  rounded(addPercent(newAmount(value, scale), percent), scale)

calcSubtractPercent(value, percent, scale) ==
  rounded(subtractPercent(newAmount(value, scale), percent), scale)

\* Compare: [ok, v] with v in {-1, 0, 1}
compare(a, b) ==
  IF ~a.ok \/ ~b.ok THEN [ok |-> FALSE, v |-> 0] ELSE [ok |-> TRUE, v |-> DecCmp(a.v, b.v)]

calcCompare(a, b, scale) == compare(newAmount(a, scale), newAmount(b, scale))

calcMul(value, factor, scale) ==
  rounded(multiply(newAmount(value, scale), DecimalNew(factor, 0)), scale)

calcDiv(value, divisor, scale) ==
  rounded(divide(newAmount(value, scale), DecimalNew(divisor, 0), scale), scale)

(***************************************************************************)
(* money.go: the Money facade.  A string is the sequence of its            *)
(* characters; a result is [money, flag, text, err].                       *)
(***************************************************************************)
Currency(code, scale, symbol) == [Code |-> code, Scale |-> scale, Symbol |-> symbol]

New(amount, currency) == [amount |-> amount, currency |-> currency]

\* Money{}
NoMoney == New(IZero, Currency(<<>>, 0, <<>>))

sameCurrency(a, b) == a.Code = b.Code /\ a.Scale = b.Scale /\ a.Symbol = b.Symbol

MoneyRes(money, err) == [money |-> money, flag |-> FALSE, text |-> <<>>, err |-> err]

BoolRes(flag, err) == [money |-> NoMoney, flag |-> flag, text |-> <<>>, err |-> err]

TextRes(text, err) == [money |-> NoMoney, flag |-> FALSE, text |-> text, err |-> err]

\* the facade's way of turning a calc result into its own
Wrap(r, currency) ==
  IF ~r.ok THEN MoneyRes(NoMoney, "ErrInvalidOperation")
  ELSE MoneyRes(New(r.v, currency), "nil")

\* MoneyAdd with the numeric work done before the currencies are compared
MoneyAddNumericFirst(mm, x) ==
  LET r == calcAdd(mm.amount, x.amount, mm.currency.Scale)
  IN  IF ~r.ok THEN MoneyRes(NoMoney, "ErrInvalidOperation")
      ELSE IF ~sameCurrency(mm.currency, x.currency)
        THEN MoneyRes(NoMoney, "ErrCurrencyMismatch")
      ELSE MoneyRes(New(r.v, mm.currency), "nil")

MoneyAdd(m, x) ==
  IF ~sameCurrency(m.currency, x.currency) THEN MoneyRes(NoMoney, "ErrCurrencyMismatch")
  ELSE Wrap(calcAdd(m.amount, x.amount, m.currency.Scale), m.currency)

MoneySub(m, x) ==
  IF ~sameCurrency(m.currency, x.currency) THEN MoneyRes(NoMoney, "ErrCurrencyMismatch")
  ELSE Wrap(calcSub(m.amount, x.amount, m.currency.Scale), m.currency)

MoneyAddPercent(m, percent) ==
  Wrap(calcAddPercent(m.amount, percent, m.currency.Scale), m.currency)

MoneySubtractPercent(m, percent) ==
  Wrap(calcSubtractPercent(m.amount, percent, m.currency.Scale), m.currency)

\* Money.Mul and Money.Div are called by the tests and are not among the
\* sources; they follow the facade's pattern over calc.Mul and calc.Div
MoneyMul(m, factor) ==
  Wrap(calcMul(m.amount, factor, m.currency.Scale), m.currency)

MoneyDiv(m, divisor) ==
  Wrap(calcDiv(m.amount, divisor, m.currency.Scale), m.currency)

MoneyEqual(m, x) ==
  IF ~sameCurrency(m.currency, x.currency) THEN BoolRes(FALSE, "nil")
  ELSE LET c == calcCompare(m.amount, x.amount, m.currency.Scale)
       IN  IF ~c.ok THEN BoolRes(FALSE, "nil") ELSE BoolRes(c.v = 0, "nil")

MoneyGreaterThan(m, x) ==
  IF ~sameCurrency(m.currency, x.currency) THEN BoolRes(FALSE, "ErrCurrencyMismatch")
  ELSE LET c == calcCompare(m.amount, x.amount, m.currency.Scale)
       IN  IF ~c.ok THEN BoolRes(FALSE, "ErrInvalidOperation") ELSE BoolRes(c.v > 0, "nil")

MoneyLessThan(m, x) ==
  IF ~sameCurrency(m.currency, x.currency) THEN BoolRes(FALSE, "ErrCurrencyMismatch")
  ELSE LET c == calcCompare(m.amount, x.amount, m.currency.Scale)
       IN  IF ~c.ok THEN BoolRes(FALSE, "ErrInvalidOperation") ELSE BoolRes(c.v < 0, "nil")

(***************************************************************************)
(* format.go: the format configuration and the rendering engine.           *)
(***************************************************************************)
SymbolPrefix == 0

SymbolSuffix == 1

SymbolUseCurrencySymbol == 0

SymbolUseCurrencyCode == 1

SymbolUseCustom == 2

FormatConfig(dec, thou, pos, kind, custom, space) ==
  [DecimalSeparator |-> dec, ThousandsSeparator |-> thou, SymbolPosition |-> pos,
   SymbolKind |-> kind, CustomSymbol |-> custom, Space |-> space]

\* what init() stores
InitialFormat ==
  FormatConfig(<<".">>, <<>>, SymbolPrefix, SymbolUseCurrencySymbol, <<>>, FALSE)

\* validateFormat with the comparison of the two separators left out
validateFormatSameSeparators(cfg) ==
  IF cfg.DecimalSeparator = <<>> THEN "ErrInvalidOperation"
  ELSE IF Len(cfg.DecimalSeparator) # 1 THEN "ErrInvalidOperation"
  ELSE IF cfg.ThousandsSeparator # <<>> /\ Len(cfg.ThousandsSeparator) # 1
    THEN "ErrInvalidOperation"
  ELSE IF cfg.SymbolKind = SymbolUseCustom /\ cfg.CustomSymbol = <<>>
    THEN "ErrInvalidOperation"
  ELSE IF cfg.SymbolPosition \notin {SymbolPrefix, SymbolSuffix} THEN "ErrInvalidOperation"
  ELSE IF cfg.SymbolKind \notin {SymbolUseCurrencySymbol, SymbolUseCurrencyCode, SymbolUseCustom}
    THEN "ErrInvalidOperation"
  ELSE "nil"

\* utf8.RuneCountInString is the length of the sequence of characters
validateFormat(cfg) ==
  IF cfg.DecimalSeparator = <<>> THEN "ErrInvalidOperation"
  ELSE IF Len(cfg.DecimalSeparator) # 1 THEN "ErrInvalidOperation"
  ELSE IF cfg.ThousandsSeparator # <<>> /\ Len(cfg.ThousandsSeparator) # 1
    THEN "ErrInvalidOperation"
  ELSE IF cfg.ThousandsSeparator # <<>> /\ cfg.ThousandsSeparator = cfg.DecimalSeparator
    THEN "ErrInvalidOperation"
  ELSE IF cfg.SymbolKind = SymbolUseCustom /\ cfg.CustomSymbol = <<>>
    THEN "ErrInvalidOperation"
  ELSE IF cfg.SymbolPosition \notin {SymbolPrefix, SymbolSuffix} THEN "ErrInvalidOperation"
  ELSE IF cfg.SymbolKind \notin {SymbolUseCurrencySymbol, SymbolUseCurrencyCode, SymbolUseCustom}
    THEN "ErrInvalidOperation"
  ELSE "nil"

signPrefix(amount) == IF ILt(amount, IZero) THEN <<"-">> ELSE <<>>

DigitChars == <<"0", "1", "2", "3", "4", "5", "6", "7", "8", "9">>

\* strconv.FormatInt / FormatUint in base 10 of a magnitude
FormatUint(mag) ==
  IF mag = <<>> THEN <<"0">> ELSE [i \in 1..Len(mag) |-> DigitChars[mag[i] + 1]]

absInt64String(amount) ==
  IF ~ILt(amount, IZero) THEN FormatUint(amount.mag)
  ELSE IF amount = MinInt64 THEN FormatUint(NAdd(MaxInt64Mag, <<1>>))
  ELSE FormatUint(INeg(amount).mag)

\* strings.Repeat(s, n)
Repeat(c, n) == [i \in 1..n |-> c]

\* splitAmount without the zeros put in front of a short digit string
splitAmountUnpadded(absDigits, scale) ==
  IF scale <= 0 THEN [int |-> absDigits, frac |-> <<>>]
  ELSE [int  |-> SubSeq(absDigits, 1, Len(absDigits) - scale),
        frac |-> SubSeq(absDigits, MaxOf({1, Len(absDigits) - scale + 1}), Len(absDigits))]

splitAmount(absDigits, scale) ==
  IF scale <= 0 THEN [int |-> absDigits, frac |-> <<>>]
  ELSE LET padded == IF Len(absDigits) <= scale
                       THEN Repeat("0", scale - Len(absDigits) + 1) \o absDigits
                       ELSE absDigits
       IN  [int  |-> SubSeq(padded, 1, Len(padded) - scale),
            frac |-> SubSeq(padded, Len(padded) - scale + 1, Len(padded))]

\* the loop of groupThousands, from index i (counted from 0) on
RECURSIVE groupFrom(_, _, _, _)
groupFrom(intPart, sep, i, out) ==
  IF i >= Len(intPart) THEN out
  ELSE groupFrom(intPart, sep, i + 3, out \o sep \o SubSeq(intPart, i + 1, i + 3))

\* groupThousands with a first group of Len % 3 digits, none when that is 0
groupThousandsFromRemainder(intPart, sep) ==
  IF Len(intPart) <= 3 THEN intPart
  ELSE groupFrom(intPart, sep, Len(intPart) % 3, SubSeq(intPart, 1, Len(intPart) % 3))

groupThousands(intPart, sep) ==
  IF Len(intPart) <= 3 THEN intPart
  ELSE LET start == IF Len(intPart) % 3 = 0 THEN 3 ELSE Len(intPart) % 3
       IN  groupFrom(intPart, sep, start, SubSeq(intPart, 1, start))

formatSymbol(currency, cfg) ==
  IF cfg.SymbolKind = SymbolUseCurrencySymbol THEN [s |-> currency.Symbol, err |-> "nil"]
  ELSE IF cfg.SymbolKind = SymbolUseCurrencyCode THEN [s |-> currency.Code, err |-> "nil"]
  ELSE IF cfg.SymbolKind = SymbolUseCustom
    THEN (IF cfg.CustomSymbol = <<>> THEN [s |-> <<>>, err |-> "ErrInvalidOperation"]
          ELSE [s |-> cfg.CustomSymbol, err |-> "nil"])
  ELSE [s |-> <<>>, err |-> "ErrInvalidOperation"]

\* the amount part of the text: the integer part, grouped when a thousands
\* separator is set, and the fractional part behind the decimal separator
amountText(mm, cfg) ==
  LET parts   == splitAmount(absInt64String(mm.amount), mm.currency.Scale)
      intPart == IF cfg.ThousandsSeparator # <<>>
                   THEN groupThousands(parts.int, cfg.ThousandsSeparator)
                   ELSE parts.int
  IN  IF parts.frac # <<>> THEN intPart \o cfg.DecimalSeparator \o parts.frac ELSE intPart

\* formatWithConfig with the symbol put before the sign in prefix mode
formatWithConfigSymbolFirst(mm, cfg) ==
  LET amount == amountText(mm, cfg)
      symbol == formatSymbol(mm.currency, cfg)
      sep    == IF cfg.Space /\ symbol.s # <<>> THEN <<" ">> ELSE <<>>
  IN  IF symbol.err # "nil" THEN TextRes(<<>>, symbol.err)
      ELSE IF cfg.SymbolPosition = SymbolSuffix
        THEN TextRes(signPrefix(mm.amount) \o amount \o sep \o symbol.s, "nil")
      ELSE TextRes(symbol.s \o sep \o signPrefix(mm.amount) \o amount, "nil")

formatWithConfig(mm, cfg) ==
  LET amount == amountText(mm, cfg)
      symbol == formatSymbol(mm.currency, cfg)
      sep    == IF cfg.Space /\ symbol.s # <<>> THEN <<" ">> ELSE <<>>
  IN  IF symbol.err # "nil" THEN TextRes(<<>>, symbol.err)
      ELSE IF cfg.SymbolPosition = SymbolSuffix
        THEN TextRes(signPrefix(mm.amount) \o amount \o sep \o symbol.s, "nil")
      ELSE TextRes(signPrefix(mm.amount) \o symbol.s \o sep \o amount, "nil")

\* Money.Format
MoneyFormat(mm, cfg) ==
  IF validateFormat(cfg) # "nil" THEN TextRes(<<>>, validateFormat(cfg))
  ELSE formatWithConfig(mm, cfg)

\* Money.String, given what DefaultFormat() returned
MoneyString(mm, cfg) ==
  IF formatWithConfig(mm, cfg).err # "nil" THEN TextRes(<<>>, "nil")
  ELSE TextRes(formatWithConfig(mm, cfg).text, "nil")

(***************************************************************************)
(* pipe.go: the chained builder.  PipeOf and Result are the repository's;  *)
(* the chained methods are generated from the Money methods by genpipe     *)
(* (pipe_gen.go) and are written here from their contract: a step on a     *)
(* Pipe that holds a failure returns that Pipe, any other step calls the   *)
(* Money method on the Pipe's Money and holds what it returned.            *)
(***************************************************************************)
Pipe(money, err) == [money |-> money, err |-> err]

PipeOf(mm) == Pipe(mm, "nil")

\* Result that hands out the Money and no failure
ResultWithoutFailure(p) == MoneyRes(p.money, "nil")

Result(p) == IF p.err # "nil" THEN MoneyRes(NoMoney, p.err) ELSE MoneyRes(p.money, "nil")

\* the Pipe a step leaves when the Money method returned r
PipeThen(r) == IF r.err # "nil" THEN Pipe(NoMoney, r.err) ELSE Pipe(r.money, "nil")

PipeAdd(p, x) == IF p.err # "nil" THEN p ELSE PipeThen(MoneyAdd(p.money, x))

PipeSub(p, x) == IF p.err # "nil" THEN p ELSE PipeThen(MoneySub(p.money, x))

PipeAddPercent(p, percent) ==
  IF p.err # "nil" THEN p ELSE PipeThen(MoneyAddPercent(p.money, percent))

PipeSubtractPercent(p, percent) ==
  IF p.err # "nil" THEN p ELSE PipeThen(MoneySubtractPercent(p.money, percent))

(***************************************************************************)
(* The state: one Money value m, the operation applied to it (op) with its *)
(* operands (arg), what the operation returned (res), and what a second    *)
(* operation returned (back); the process-wide format configuration        *)
(* (formatConfig, an atomic.Value); and, for the goroutines that call      *)
(* SetFormat, DefaultFormat and String concurrently, where each one is     *)
(* (pc) and what it holds (loc).  accepted and lastSet record the history: *)
(* the configurations SetFormat has stored, and the last of them.  For a   *)
(* chain of operations started with PipeOf(m), pipe is the Pipe the chain  *)
(* has reached and steps the operations it was asked for, in order.        *)
(***************************************************************************)
VARIABLES m, op, arg, res, back, formatConfig, pc, loc, accepted, lastSet, pipe, steps

opVars == <<m, op, arg, res, back>>

storeVars == <<formatConfig, pc, loc, accepted, lastSet>>

pipeVars == <<pipe, steps>>

vars == <<m, op, arg, res, back, formatConfig, pc, loc, accepted, lastSet, pipe, steps>>

\* amounts 0, +-1, .. +-SmallMax and the SmallMax+1 values at each end of int64
SmallMax == 2

\* currency scales 0..LowScales, besides the scales around the engine's limits
LowScales == 2

Near0 == {ISmall(k) : k \in -SmallMax..SmallMax}

Edge == {ISub(MaxInt64, ISmall(k)) : k \in 0..SmallMax}
        \cup {IAdd(MinInt64, ISmall(k)) : k \in 0..SmallMax}

ThreeE18Plus1 == Signed(FALSE, <<3>> \o Zeros(17) \o <<1>>)

TwoE18Plus1 == Signed(FALSE, <<2>> \o Zeros(17) \o <<1>>)

Amounts == Near0 \cup Edge \cup {ISmall(250), ISmall(-350), ISmall(19990), ThreeE18Plus1}

Percents == Near0 \cup Edge \cup {ISmall(5), ISmall(10), ISmall(18), ISmall(150)}

Factors == Near0 \cup {ISmall(10), MaxInt64, MinInt64}

Divisors == Near0 \cup {ISmall(3), ISmall(-4), TwoE18Plus1, MinInt64}

Scales == (0..LowScales) \cup {17, 18, 19, 20, -1}

USD == <<"U", "S", "D">>

EUR == <<"E", "U", "R">>

JPY == <<"J", "P", "Y">>

Currencies == {Currency(USD, s, <<"$">>) : s \in Scales}
              \cup {Currency(JPY, 0, <<"Y">>), Currency(<<>>, 2, <<>>)}

\* currencies that differ from c in exactly one field
Variants(c) ==
  {Currency(EUR, c.Scale, c.Symbol), Currency(c.Code, c.Scale, <<"E">>),
   Currency(c.Code, IF c.Scale = 2 THEN 0 ELSE 2, c.Symbol),
   Currency(c.Code, IF c.Scale = 20 THEN 19 ELSE 20, c.Symbol)}

\* the second operands tried with m: every amount in m's currency, and m's
\* amount and the largest amount in each currency that differs in one field
Operands(mm) ==
  {New(b, mm.currency) : b \in Amounts}
  \cup {New(b, c) : b \in {mm.amount, MaxInt64}, c \in Variants(mm.currency)}

NoArg == [x |-> NoMoney, k |-> IZero, cfg |-> InitialFormat]

Local(cfg, n, seen, text, err) == [cfg |-> cfg, n |-> n, seen |-> seen, text |-> text, err |-> err]

NoLocal == Local(InitialFormat, 0, InitialFormat, <<>>, "nil")

\* the goroutines: two call SetFormat, one DefaultFormat, one String
Writers == {"w1", "w2"}

Getters == {"g1"}

Printers == {"p1"}

Procs == Writers \cup Getters \cup Printers

\* a Store that writes the fields one at a time and is seen after the first
StoreTorn(old, cfg) == [old EXCEPT !.DecimalSeparator = cfg.DecimalSeparator]

\* formatConfig.Store(cfg): atomic.Value replaces the whole value at once
Store(old, cfg) == cfg

\* no chain has been started
NoChain ==
  /\ pipe = Pipe(NoMoney, "nil")
  /\ steps = <<>>

\* the state of the store after init(), with every goroutine idle
StoreInit ==
  /\ formatConfig = InitialFormat
  /\ pc = [p \in Procs |-> "idle"]
  /\ loc = [p \in Procs |-> NoLocal]
  /\ accepted = {}
  /\ lastSet = InitialFormat

NoRes == MoneyRes(NoMoney, "nil")

Init ==
  /\ m \in {New(a, c) : a \in Amounts, c \in Currencies}
  /\ op = "none"
  /\ arg = NoArg
  /\ res = NoRes
  /\ back = NoRes
  /\ StoreInit
  /\ NoChain

Binary(name, x, r) ==
  /\ op = "none"
  /\ op' = name
  /\ arg' = [x |-> x, k |-> IZero, cfg |-> InitialFormat]
  /\ res' = r
  /\ UNCHANGED <<m, back>>
  /\ UNCHANGED storeVars
  /\ UNCHANGED pipeVars

Unary(name, k, r) ==
  /\ op = "none"
  /\ op' = name
  /\ arg' = [x |-> NoMoney, k |-> k, cfg |-> InitialFormat]
  /\ res' = r
  /\ UNCHANGED <<m, back>>
  /\ UNCHANGED storeVars
  /\ UNCHANGED pipeVars

DoAdd == \E x \in Operands(m) : Binary("Add", x, MoneyAdd(m, x))

DoSub == \E x \in Operands(m) : Binary("Sub", x, MoneySub(m, x))

DoEqual == \E x \in Operands(m) : Binary("Equal", x, MoneyEqual(m, x))

DoGreaterThan == \E x \in Operands(m) : Binary("GreaterThan", x, MoneyGreaterThan(m, x))

DoLessThan == \E x \in Operands(m) : Binary("LessThan", x, MoneyLessThan(m, x))

DoAddPercent == \E k \in Percents : Unary("AddPercent", k, MoneyAddPercent(m, k))

DoSubtractPercent == \E k \in Percents : Unary("SubtractPercent", k, MoneySubtractPercent(m, k))

DoMul == \E k \in Factors : Unary("Mul", k, MoneyMul(m, k))

DoDiv == \E k \in Divisors : Unary("Div", k, MoneyDiv(m, k))

\* a.Add(b) followed by Sub(b) on the sum
DoSubBack ==
  /\ op = "Add"
  /\ res.err = "nil"
  /\ op' = "AddSub"
  /\ back' = MoneySub(res.money, arg.x)
  /\ UNCHANGED <<m, arg, res>>
  /\ UNCHANGED storeVars
  /\ UNCHANGED pipeVars

\* the operations between Money values, and the multiple of one
Next ==
  \/ DoAdd
  \/ DoSub
  \/ DoMul
  \/ DoEqual
  \/ DoGreaterThan
  \/ DoLessThan
  \/ DoSubBack

Spec == Init /\ [][Next]_vars

\* the operations that round: division and the percent adjustments
NextRounding ==
  \/ DoDiv
  \/ DoAddPercent
  \/ DoSubtractPercent

SpecRounding == Init /\ [][NextRounding]_vars

(***************************************************************************)
(* Rendering and the format configuration, one call after another.         *)
(***************************************************************************)
DecimalSeparators == {<<>>, <<".">>, <<",">>, <<".", ".">>}

ThousandsSeparators == {<<>>, <<".">>, <<",">>, <<",", ",">>}

SymbolPositions == {SymbolPrefix, SymbolSuffix, 2}

SymbolKinds == {SymbolUseCurrencySymbol, SymbolUseCurrencyCode, SymbolUseCustom, 3}

CustomSymbols == {<<>>, <<"C", "r">>}

Configs ==
  {FormatConfig(d, t, p, k, c, sp) :
     d \in DecimalSeparators, t \in ThousandsSeparators, p \in SymbolPositions,
     k \in SymbolKinds, c \in CustomSymbols, sp \in BOOLEAN}

RenderedAmounts ==
  {ISmall(0), ISmall(5), ISmall(-105), ISmall(1234), ISmall(-123456789), MinInt64}

RenderedCurrencies ==
  {Currency(USD, 2, <<"$">>), Currency(JPY, 0, <<"Y">>), Currency(<<>>, 3, <<>>)}

InitFormat ==
  /\ m \in {New(a, c) : a \in RenderedAmounts, c \in RenderedCurrencies}
  /\ op = "none"
  /\ arg = NoArg
  /\ res = NoRes
  /\ back = NoRes
  /\ StoreInit
  /\ NoChain

WithConfig(cfg) == [x |-> NoMoney, k |-> IZero, cfg |-> cfg]

\* m.Format(cfg)
DoFormat ==
  \E cfg \in Configs :
    /\ op = "none"
    /\ op' = "Format"
    /\ arg' = WithConfig(cfg)
    /\ res' = MoneyFormat(m, cfg)
    /\ UNCHANGED <<m, back>>
    /\ UNCHANGED storeVars
    /\ UNCHANGED pipeVars

\* SetFormat(cfg), from validateFormat to the Store
SetFormat(cfg) ==
  IF validateFormat(cfg) # "nil"
  THEN /\ res' = TextRes(<<>>, validateFormat(cfg))
       /\ UNCHANGED <<formatConfig, accepted, lastSet>>
  ELSE /\ res' = TextRes(<<>>, "nil")
       /\ formatConfig' = Store(formatConfig, cfg)
       /\ accepted' = accepted \cup {cfg}
       /\ lastSet' = cfg

DoSetFormat ==
  \E cfg \in Configs :
    /\ op = "none"
    /\ op' = "SetFormat"
    /\ arg' = WithConfig(cfg)
    /\ SetFormat(cfg)
    /\ UNCHANGED <<m, back, pc, loc>>
    /\ UNCHANGED pipeVars

\* m.Format with the configuration SetFormat was just called with
DoFormatSame ==
  /\ op = "SetFormat"
  /\ op' = "SetFormatFormat"
  /\ back' = MoneyFormat(m, arg.cfg)
  /\ UNCHANGED <<m, arg, res>>
  /\ UNCHANGED storeVars
  /\ UNCHANGED pipeVars

\* m.String(), before or after a SetFormat
DoString ==
  /\ op \in {"none", "SetFormat"}
  /\ op' = "String"
  /\ back' = MoneyString(m, formatConfig)
  /\ UNCHANGED <<m, arg, res>>
  /\ UNCHANGED storeVars
  /\ UNCHANGED pipeVars

NextFormat ==
  \/ DoFormat
  \/ DoSetFormat
  \/ DoFormatSame
  \/ DoString

SpecFormat == InitFormat /\ [][NextFormat]_vars

(***************************************************************************)
(* Chains of operations: PipeOf(m), up to MaxSteps steps, Result().        *)
(***************************************************************************)
\* the longest chain
MaxSteps == 3

TRY == <<"T", "R", "Y">>

\* a price, the largest amount, and an amount at the scale where sums fail
PipeMoneys ==
  {New(ISmall(19990), Currency(TRY, 2, <<"L">>)),
   New(MaxInt64, Currency(TRY, 2, <<"L">>)),
   New(ISmall(100), Currency(USD, 19, <<"$">>))}

\* second operands in the currency of mm and in another one
PipeOperands(mm) ==
  {New(ISmall(5000), mm.currency), New(ISmall(100), Currency(EUR, mm.currency.Scale, <<"E">>))}

Step(name, x, k) == [name |-> name, x |-> x, k |-> k]

InitPipe ==
  /\ m \in PipeMoneys
  /\ op = "none"
  /\ arg = NoArg
  /\ res = NoRes
  /\ back = NoRes
  /\ StoreInit
  /\ NoChain

DoPipeOf ==
  /\ op = "none"
  /\ op' = "Pipe"
  /\ pipe' = PipeOf(m)
  /\ steps' = <<>>
  /\ UNCHANGED <<m, arg, res, back>>
  /\ UNCHANGED storeVars

\* one more step on the chain: the Pipe it returns replaces the chain's
Chained(p, s) ==
  /\ op = "Pipe"
  /\ Len(steps) < MaxSteps
  /\ pipe' = p
  /\ steps' = Append(steps, s)
  /\ UNCHANGED opVars
  /\ UNCHANGED storeVars

DoPipeAdd == \E x \in PipeOperands(m) : Chained(PipeAdd(pipe, x), Step("Add", x, IZero))

DoPipeSub == \E x \in PipeOperands(m) : Chained(PipeSub(pipe, x), Step("Sub", x, IZero))

DoPipeAddPercent ==
  \E k \in {ISmall(10), ISmall(20)} :
    Chained(PipeAddPercent(pipe, k), Step("AddPercent", NoMoney, k))

DoPipeSubtractPercent ==
  \E k \in {ISmall(10)} :
    Chained(PipeSubtractPercent(pipe, k), Step("SubtractPercent", NoMoney, k))

DoResult ==
  /\ op = "Pipe"
  /\ op' = "Result"
  /\ back' = Result(pipe)
  /\ UNCHANGED <<m, arg, res>>
  /\ UNCHANGED storeVars
  /\ UNCHANGED pipeVars

NextPipe ==
  \/ DoPipeOf
  \/ DoPipeAdd
  \/ DoPipeSub
  \/ DoPipeAddPercent
  \/ DoPipeSubtractPercent
  \/ DoResult

SpecPipe == InitPipe /\ [][NextPipe]_vars

(***************************************************************************)
(* Rendering of amounts of every length at scales below, at and above the  *)
(* number of their digits, with and without a thousands separator.         *)
(***************************************************************************)
DigitAmounts ==
  {ISmall(k) : k \in {0, 7, -7, 12, 123, -999, 1000, 1234, -12345, 123456, 1234567, -10000000}}
  \cup {MaxInt64, MinInt64}

DigitScales == {0, 1, 2, 3, 4, 7, 18, 19, 20}

\* the valid configurations with either separator and with or without grouping
DigitConfigs ==
  {cfg \in {FormatConfig(d, t, p, k, <<>>, sp) :
              d \in {<<".">>, <<",">>}, t \in {<<>>, <<".">>, <<",">>},
              p \in {SymbolPrefix, SymbolSuffix},
              k \in {SymbolUseCurrencySymbol, SymbolUseCurrencyCode}, sp \in BOOLEAN} :
     cfg.ThousandsSeparator # cfg.DecimalSeparator}

InitDigits ==
  /\ m \in {New(a, Currency(USD, s, <<"$">>)) : a \in DigitAmounts, s \in DigitScales}
  /\ op = "none"
  /\ arg = NoArg
  /\ res = NoRes
  /\ back = NoRes
  /\ StoreInit
  /\ NoChain

\* m.Format(cfg) under one of these configurations
DoFormatDigits ==
  \E cfg \in DigitConfigs :
    /\ op = "none"
    /\ op' = "Format"
    /\ arg' = WithConfig(cfg)
    /\ res' = MoneyFormat(m, cfg)
    /\ UNCHANGED <<m, back>>
    /\ UNCHANGED storeVars
    /\ UNCHANGED pipeVars

NextDigits == DoFormatDigits

SpecDigits == InitDigits /\ [][NextDigits]_vars

(***************************************************************************)
(* The checked int64 primitives on their own: m's amount is the first      *)
(* operand, arg.k the second, and res holds the pair that came back, the   *)
(* value in the amount and "errOverflow" for ok = false.                   *)
(***************************************************************************)
TwoTo31 == Signed(FALSE, <<2, 1, 4, 7, 4, 8, 3, 6, 4, 8>>)

TwoTo32 == Signed(FALSE, <<4, 2, 9, 4, 9, 6, 7, 2, 9, 6>>)

TwoTo62 == Signed(FALSE, <<4, 6, 1, 1, 6, 8, 6, 0, 1, 8, 4, 2, 7, 3, 8, 7, 9, 0, 4>>)

\* the largest int64 whose square is an int64
RootOfMax == Signed(FALSE, <<3, 0, 3, 7, 0, 0, 0, 4, 9, 9>>)

CheckedValues ==
  Near0 \cup Edge
  \cup {TwoTo31, INeg(TwoTo31), TwoTo32, INeg(TwoTo32), TwoTo62, INeg(TwoTo62),
        RootOfMax, IAdd(RootOfMax, ISmall(1)), INeg(IAdd(RootOfMax, ISmall(1))),
        ISmall(10), ISmall(-100)}

CheckedRes(r) == MoneyRes(New(r.v, m.currency), IF r.ok THEN "nil" ELSE "errOverflow")

InitChecked ==
  /\ m \in {New(a, Currency(USD, 2, <<"$">>)) : a \in CheckedValues}
  /\ op = "none"
  /\ arg = NoArg
  /\ res = NoRes
  /\ back = NoRes
  /\ StoreInit
  /\ NoChain

DoMulInt64 == \E b \in CheckedValues : Unary("mulInt64", b, CheckedRes(mulInt64(m.amount, b)))

DoAddInt64 == \E b \in CheckedValues : Unary("addInt64", b, CheckedRes(addInt64(m.amount, b)))

NextChecked ==
  \/ DoMulInt64
  \/ DoAddInt64

SpecChecked == InitChecked /\ [][NextChecked]_vars

(***************************************************************************)
(* The format configuration under concurrent SetFormat, DefaultFormat and  *)
(* String calls.  SetFormat is two steps, validateFormat and the Store;    *)
(* String is two steps, the Load in DefaultFormat and the rendering;       *)
(* DefaultFormat is one Load.                                              *)
(***************************************************************************)
MaxCalls == 2

CommaDot == FormatConfig(<<",">>, <<".">>, SymbolSuffix, SymbolUseCurrencyCode, <<>>, TRUE)

DotComma == FormatConfig(<<".">>, <<",">>, SymbolPrefix, SymbolUseCustom, <<"C", "r">>, FALSE)

SameSeparators == FormatConfig(<<",">>, <<",">>, SymbolSuffix, SymbolUseCurrencyCode, <<>>, TRUE)

NoCustomSymbol == FormatConfig(<<".">>, <<",">>, SymbolPrefix, SymbolUseCustom, <<>>, TRUE)

StoreConfigs == {CommaDot, DotComma, SameSeparators, NoCustomSymbol}

InitStore ==
  /\ m \in {New(ISmall(-123456789), Currency(USD, 2, <<"$">>)),
             New(ISmall(5), Currency(<<>>, 3, <<>>))}
  /\ op = "none"
  /\ arg = NoArg
  /\ res = NoRes
  /\ back = NoRes
  /\ StoreInit
  /\ NoChain

\* SetFormat up to the return of validateFormat: a rejected call returns here
SetFormatValidate ==
  \E p \in Writers, cfg \in StoreConfigs :
    /\ pc[p] = "idle"
    /\ loc[p].n < MaxCalls
    /\ IF validateFormat(cfg) # "nil"
       THEN /\ loc' = [loc EXCEPT ![p] = Local(cfg, @.n + 1, @.seen, @.text, validateFormat(cfg))]
            /\ UNCHANGED pc
       ELSE /\ loc' = [loc EXCEPT ![p] = Local(cfg, @.n, @.seen, @.text, "nil")]
            /\ pc' = [pc EXCEPT ![p] = "store"]
    /\ UNCHANGED <<formatConfig, accepted, lastSet>>
    /\ UNCHANGED opVars
    /\ UNCHANGED pipeVars

\* formatConfig.Store(cfg) and the return of nil
SetFormatStore ==
  \E p \in Writers :
    /\ pc[p] = "store"
    /\ formatConfig' = Store(formatConfig, loc[p].cfg)
    /\ accepted' = accepted \cup {loc[p].cfg}
    /\ lastSet' = loc[p].cfg
    /\ loc' = [loc EXCEPT ![p].n = @ + 1]
    /\ pc' = [pc EXCEPT ![p] = "idle"]
    /\ UNCHANGED opVars
    /\ UNCHANGED pipeVars

\* DefaultFormat(): one Load
DefaultFormat ==
  \E p \in Getters :
    /\ pc[p] = "idle"
    /\ loc[p].n < MaxCalls
    /\ loc' = [loc EXCEPT ![p].seen = formatConfig, ![p].n = @ + 1]
    /\ UNCHANGED <<formatConfig, pc, accepted, lastSet>>
    /\ UNCHANGED opVars
    /\ UNCHANGED pipeVars

\* String(): the Load in DefaultFormat()
StringLoad ==
  \E p \in Printers :
    /\ pc[p] = "idle"
    /\ loc[p].n < MaxCalls
    /\ loc' = [loc EXCEPT ![p].seen = formatConfig]
    /\ pc' = [pc EXCEPT ![p] = "render"]
    /\ UNCHANGED <<formatConfig, accepted, lastSet>>
    /\ UNCHANGED opVars
    /\ UNCHANGED pipeVars

\* String(): formatWithConfig with what was loaded
StringRender ==
  \E p \in Printers :
    /\ pc[p] = "render"
    /\ loc' = [loc EXCEPT ![p].text = MoneyString(m, loc[p].seen).text, ![p].n = @ + 1]
    /\ pc' = [pc EXCEPT ![p] = "idle"]
    /\ UNCHANGED <<formatConfig, accepted, lastSet>>
    /\ UNCHANGED opVars
    /\ UNCHANGED pipeVars

NextStore ==
  \/ SetFormatValidate
  \/ SetFormatStore
  \/ DefaultFormat
  \/ StringLoad
  \/ StringRender

SpecStore == InitStore /\ [][NextStore]_vars

(***************************************************************************)
(* What the claims compare the results with: the mathematical results,     *)
(* over unbounded integers.                                                *)
(***************************************************************************)
IsBinary == op \in {"Add", "Sub", "Equal", "GreaterThan", "LessThan"}

SameCur == sameCurrency(m.currency, arg.x.currency)

ValidScale == m.currency.Scale \in 0..19

\* a+b, a-b, a*f for the operation in op
ExactArith ==
  IF op = "Add" THEN IAdd(m.amount, arg.x.amount)
  ELSE IF op = "Sub" THEN ISub(m.amount, arg.x.amount)
  ELSE IMul(m.amount, arg.k)

\* the operation returned exactly the Money of amount v in m's currency
Returned(v) == res.err = "nil" /\ res.money = New(v, m.currency)

Failed(e) == res.err = e /\ res.money = NoMoney

ArithExact ==
  IF InInt64(ExactArith) THEN Returned(ExactArith) ELSE Failed("ErrInvalidOperation")

\* C1: for every scale in 0..19, add, sub and mul return the exact a+b, a-b,
\* a*f in the same currency when that value is an int64, and fail with
\* invalid-operation when it is not
C1_ExactOrInvalid ==
  (op \in {"Add", "Sub", "Mul"} /\ ValidScale /\ (op # "Mul" => SameCur)) => ArithExact

\* C1 with the scales 0..18 (10^19 is no int64, so at scale 19 round-to-minor
\* fails whatever the amounts are)
C1_ExactOrInvalidBelow19 ==
  (op \in {"Add", "Sub", "Mul"} /\ m.currency.Scale \in 0..18 /\ (op # "Mul" => SameCur))
    => ArithExact

\* what happens at scale 19: every add, sub and mul fails
C1_Scale19AlwaysFails ==
  (op \in {"Add", "Sub", "Mul"} /\ m.currency.Scale = 19 /\ (op # "Mul" => SameCur))
    => Failed("ErrInvalidOperation")

\* C2: between Money values whose currencies differ in a field, Add, Sub,
\* GreaterThan and LessThan fail with currency-mismatch, whatever the amounts
\* and scales, and Equal returns false without failing
C2_MismatchFirst ==
  (IsBinary /\ ~SameCur) =>
    IF op = "Equal" THEN res.err = "nil" /\ res.flag = FALSE
    ELSE res.err = "ErrCurrencyMismatch"

\* C2's case: an Add of equal amounts whose currencies differ in the scale
\* only, at a scale where the numeric work would fail
C2_Witness ==
  /\ op = "Add"
  /\ ~SameCur
  /\ m.amount = arg.x.amount
  /\ m.currency.Code = arg.x.currency.Code
  /\ m.currency.Symbol = arg.x.currency.Symbol
  /\ m.currency.Scale = 20
  /\ res.err = "ErrCurrencyMismatch"

\* C6: between Money values of one currency, whatever its scale, GreaterThan
\* and LessThan succeed and Equal, GreaterThan, LessThan are true exactly when
\* the amounts are equal, greater, less
C6_OrderIsAmountOrder ==
  (op \in {"Equal", "GreaterThan", "LessThan"} /\ SameCur) =>
    /\ res.err = "nil"
    /\ op = "Equal" => (res.flag <=> m.amount = arg.x.amount)
    /\ op = "GreaterThan" => (res.flag <=> ILt(arg.x.amount, m.amount))
    /\ op = "LessThan" => (res.flag <=> ILt(m.amount, arg.x.amount))

\* C6 for the scales the decimal engine takes: 0..19
C6_OrderIsAmountOrderValidScale ==
  ValidScale => C6_OrderIsAmountOrder

\* C9: for a and b of one currency (scale 0..19) with a+b an int64, a.add(b)
\* succeeds, sub(b) on the sum succeeds and gives a back
C9_AddThenSubIsIdentity ==
  /\ (op = "Add" /\ SameCur /\ ValidScale /\ InInt64(IAdd(m.amount, arg.x.amount)))
       => res.err = "nil"
  /\ (op = "AddSub" /\ ValidScale) => (back.err = "nil" /\ back.money = m)

\* C9 with the scales 0..18
C9_AddThenSubIsIdentityBelow19 ==
  m.currency.Scale # 19 => C9_AddThenSubIsIdentity

(***************************************************************************)
(* Division and the percent adjustments.                                   *)
(***************************************************************************)
Hundred == ISmall(100)

\* the exact result as a fraction num/den: v*(100+p)/100, v*(100-p)/100, v/d
ExactNum ==
  IF op = "AddPercent" THEN IMul(m.amount, IAdd(Hundred, arg.k))
  ELSE IF op = "SubtractPercent" THEN IMul(m.amount, ISub(Hundred, arg.k))
  ELSE m.amount

ExactDen == IF op = "Div" THEN arg.k ELSE Hundred

\* |den*r - num| * 2 <= |den|: r is within half a minor unit of num/den
WithinHalf(r, num, den) ==
  NLe(NMulSmall(ISub(IMul(den, r), num).mag, 2), den.mag)

\* num/den rounded to the nearest integer, ties to the even one
RoundHalfEven(num, den) ==
  LET qr   == NDivMod(num.mag, den.mag)
      twoR == NMulSmall(qr.r, 2)
      up   == NLt(den.mag, twoR) \/ (twoR = den.mag /\ NIsOdd(qr.q))
  IN  Signed(num.neg # den.neg, IF up THEN NAdd(qr.q, <<1>>) ELSE qr.q)

\* C3: add_percent and subtract_percent fail with invalid-operation or return
\* v*(100+p)/100, v*(100-p)/100 (over unbounded integers) rounded to a minor unit
C3_PercentExactOrInvalid ==
  (op \in {"AddPercent", "SubtractPercent"}) =>
    \/ Failed("ErrInvalidOperation")
    \/ /\ res.err = "nil"
       /\ res.money.currency = m.currency
       /\ WithinHalf(res.money.amount, ExactNum, ExactDen)

\* C4: a successful add_percent, subtract_percent or div (divisor not 0)
\* returns the exact result rounded half to even
C4_RoundHalfEven ==
  (op \in {"AddPercent", "SubtractPercent", "Div"} /\ res.err = "nil" /\ ExactDen # IZero)
    => res.money.amount = RoundHalfEven(ExactNum, ExactDen)

\* C5: division by 0 fails with invalid-operation and yields no amount,
\* whatever the amount and the scale
C5_DivByZeroInvalid ==
  (op = "Div" /\ arg.k = IZero) => Failed("ErrInvalidOperation")

\* C5's case: the largest and the smallest amount, at a scale where division
\* by another divisor succeeds, divided by 0
C5_Witness ==
  /\ op = "Div"
  /\ arg.k = IZero
  /\ m.amount \in {MaxInt64, MinInt64}
  /\ m.currency.Scale = 2
  /\ res.err = "ErrInvalidOperation"

(***************************************************************************)
(* Format configurations and rendering.                                    *)
(***************************************************************************)
\* the accepted configurations, as the contract lists them
ValidConfig(cfg) ==
  /\ Len(cfg.DecimalSeparator) = 1
  /\ \/ cfg.ThousandsSeparator = <<>>
     \/ Len(cfg.ThousandsSeparator) = 1 /\ cfg.ThousandsSeparator # cfg.DecimalSeparator
  /\ cfg.SymbolPosition \in {SymbolPrefix, SymbolSuffix}
  /\ cfg.SymbolKind \in {SymbolUseCurrencySymbol, SymbolUseCurrencyCode, SymbolUseCustom}
  /\ cfg.SymbolKind = SymbolUseCustom => cfg.CustomSymbol # <<>>

Verdict(r, cfg) == IF ValidConfig(cfg) THEN r.err = "nil" ELSE r.err = "ErrInvalidOperation"

ExpectedSign == IF ILt(m.amount, IZero) THEN <<"-">> ELSE <<>>

ExpectedSymbol(cfg) ==
  CASE cfg.SymbolKind = SymbolUseCurrencySymbol -> m.currency.Symbol
    [] cfg.SymbolKind = SymbolUseCurrencyCode -> m.currency.Code
    [] OTHER -> cfg.CustomSymbol

ExpectedSpace(cfg) == IF cfg.Space /\ ExpectedSymbol(cfg) # <<>> THEN <<" ">> ELSE <<>>

ExpectedText(cfg) ==
  IF cfg.SymbolPosition = SymbolPrefix
  THEN ExpectedSign \o ExpectedSymbol(cfg) \o ExpectedSpace(cfg) \o amountText(m, cfg)
  ELSE ExpectedSign \o amountText(m, cfg) \o ExpectedSpace(cfg) \o ExpectedSymbol(cfg)

Rendered(r, cfg) ==
  /\ r.err = "nil"
  /\ r.text = ExpectedText(cfg)
  /\ ILt(m.amount, IZero) => Head(r.text) = "-"

\* C10: under a valid configuration the text is sign, symbol, space, amount
\* in prefix mode and sign, amount, space, symbol in suffix mode; the sign is
\* "-" exactly for a negative amount and comes first; the space is one blank
\* exactly when Space is set and the symbol is not empty; the symbol is the
\* currency's symbol, its code or the custom symbol according to the kind.
C10_TextComposition ==
  /\ op = "Format" /\ ValidConfig(arg.cfg) => Rendered(res, arg.cfg)
  /\ op = "String" => Rendered(back, formatConfig)

\* a negative amount rendered in prefix mode with a space and a symbol
C10_Witness ==
  /\ op = "Format"
  /\ ILt(m.amount, IZero)
  /\ arg.cfg.SymbolPosition = SymbolPrefix
  /\ arg.cfg.Space
  /\ arg.cfg.SymbolKind = SymbolUseCurrencyCode
  /\ arg.cfg.ThousandsSeparator = <<",">>
  /\ res.err = "nil"
  /\ res.text = <<"-", "U", "S", "D", " ", "1", ",", "2", "3", "4", ",", "5", "6", "7", ".", "8", "9">>

(***************************************************************************)
(* The configuration store under concurrency.                              *)
(***************************************************************************)
Readers == Getters \cup Printers

\* what every read has observed is the initial configuration or the whole
\* argument of a SetFormat that stored, and passes validateFormat
ReadsWhole ==
  \A p \in Readers :
    /\ loc[p].seen \in {InitialFormat} \cup accepted
    /\ ValidConfig(loc[p].seen)

\* the store holds the argument of the last SetFormat that succeeded
StoreIsLastSet == formatConfig = lastSet /\ ValidConfig(formatConfig)

\* a step in which a SetFormat returns an error leaves the store alone
RejectedLeavesStore ==
  \A p \in Writers :
    loc'[p].n = loc[p].n + 1 /\ loc'[p].err # "nil" => formatConfig' = formatConfig

\* with no SetFormat between its two steps, DefaultFormat returns the
\* argument of the last successful SetFormat
GetsLastSet ==
  \A p \in Getters :
    (loc'[p].n = loc[p].n + 1 /\ \A w \in Writers : pc[w] = "idle") => loc'[p].seen = lastSet

\* C8: whatever the interleaving of SetFormat calls with DefaultFormat and
\* String, every read observes one whole configuration, the initial one or
\* the argument of a successful SetFormat, never a mixture and never a
\* rejected one; a rejected SetFormat leaves the store unchanged; and with
\* no concurrent writer DefaultFormat returns the argument of the most
\* recent successful SetFormat.
C8_WholeSnapshots ==
  /\ [](ReadsWhole /\ StoreIsLastSet)
  /\ [][RejectedLeavesStore /\ GetsLastSet]_vars

\* the two readers hold the two configurations that were stored, one writer
\* has had a call rejected and the other is between validateFormat and Store
C8_Witness ==
  /\ loc["g1"].seen = CommaDot
  /\ loc["p1"].seen = DotComma
  /\ pc["p1"] = "render"
  /\ \E w \in Writers : loc[w].err # "nil" /\ pc[w] = "idle"
  /\ \E w \in Writers : pc[w] = "store" /\ loc[w].cfg = CommaDot
  /\ formatConfig = DotComma

(***************************************************************************)
(* The digits of a rendered amount.                                        *)
(***************************************************************************)
\* what is left of a rendered text without its sign, symbol and space
AmountPart(text, cfg) ==
  LET around == Len(ExpectedSymbol(cfg)) + Len(ExpectedSpace(cfg))
  IN  IF cfg.SymbolPosition = SymbolPrefix
      THEN SubSeq(text, Len(ExpectedSign) + around + 1, Len(text))
      ELSE SubSeq(text, Len(ExpectedSign) + 1, Len(text) - around)

IsDigits(chars) == \A i \in 1..Len(chars) : \E d \in 0..9 : DigitChars[d + 1] = chars[i]

\* the digits a string of digit characters stands for
DigitsOf(chars) == [i \in 1..Len(chars) |-> CHOOSE d \in 0..9 : DigitChars[d + 1] = chars[i]]

\* the digits of |amount| at a scale: those of the magnitude, behind as many
\* zeros as it takes to have one digit before the scale's fractional digits
DigitsAtScale(amount, scale) ==
  Zeros(MaxOf({0, scale + 1 - Len(amount.mag)})) \o amount.mag

\* text is an integer part of at least one digit, the separator, and scale
\* fractional digits, and its digits are those of |amount|
SplitAt(text, amount, scale, sep) ==
  /\ Len(text) >= scale + 2
  /\ text[Len(text) - scale] = sep[1]
  /\ IsDigits(SubSeq(text, 1, Len(text) - scale - 1))
  /\ IsDigits(SubSeq(text, Len(text) - scale + 1, Len(text)))
  /\ DigitsOf(SubSeq(text, 1, Len(text) - scale - 1) \o SubSeq(text, Len(text) - scale + 1, Len(text)))
       = DigitsAtScale(amount, scale)

Ungrouped == op = "Format" /\ res.err = "nil" /\ arg.cfg.ThousandsSeparator = <<>>

\* C11: without grouping, the amount part of the text at a scale s >= 1 is a
\* non-empty integer part, the decimal separator and exactly s fractional
\* digits, the digits together being those of |amount| ("0" before the
\* separator and zeros behind it for an amount of s or fewer digits); at
\* scale 0 it is the digits of |amount| and nothing else
C11_AmountDigits ==
  Ungrouped =>
    IF m.currency.Scale >= 1
    THEN SplitAt(AmountPart(res.text, arg.cfg), m.amount, m.currency.Scale, arg.cfg.DecimalSeparator)
    ELSE /\ IsDigits(AmountPart(res.text, arg.cfg))
         /\ DigitsOf(AmountPart(res.text, arg.cfg)) = DigitsAtScale(m.amount, 0)

\* the smallest amount, 19 digits, rendered at scale 20
C11_Witness ==
  /\ op = "Format"
  /\ m.amount = MinInt64
  /\ m.currency.Scale = 20
  /\ arg.cfg.ThousandsSeparator = <<>>
  /\ arg.cfg.SymbolPosition = SymbolSuffix
  /\ res.err = "nil"
  /\ AmountPart(res.text, arg.cfg)
       = <<"0", ",", "0", "9", "2", "2", "3", "3", "7", "2", "0", "3", "6", "8", "5", "4",
           "7", "7", "5", "8", "0", "8">>

(***************************************************************************)
(* Grouping of the integer part.                                           *)
(***************************************************************************)
\* the digits before the fractional digits of |amount| at a scale
IntDigits(amount, scale) ==
  SubSeq(DigitsAtScale(amount, scale), 1, Len(DigitsAtScale(amount, scale)) - scale)

\* the digits behind them
FracDigits(amount, scale) ==
  SubSeq(DigitsAtScale(amount, scale), Len(DigitsAtScale(amount, scale)) - scale + 1,
         Len(DigitsAtScale(amount, scale)))

\* the length of the separator and fractional part that end an amount part
TailLen(scale) == IF scale >= 1 THEN scale + 1 ELSE 0

\* text is digits in groups of 3 counted from the right, one separator
\* between two groups and nowhere else: every 4th character from the right
\* is the separator, every other one is the next digit
GroupedAs(text, digits, sep) ==
  /\ Len(text) = Len(digits) + ((Len(digits) - 1) \div 3)
  /\ \A p \in 1..Len(text) :
       LET r == Len(text) - p + 1
       IN  IF r % 4 = 0 THEN text[p] = sep[1]
           ELSE text[p] = DigitChars[digits[Len(digits) - (r - (r \div 4)) + 1] + 1]

\* text is the separator and the fractional digits, or nothing at scale 0
FractionAs(text, digits, sep) ==
  IF digits = <<>> THEN text = <<>>
  ELSE text = sep \o [i \in 1..Len(digits) |-> DigitChars[digits[i] + 1]]

Grouped == op = "Format" /\ res.err = "nil" /\ arg.cfg.ThousandsSeparator # <<>>

\* the amount part of the text of a grouped rendering, up to its last n
\* characters and from there on
GroupedHead(n) ==
  SubSeq(AmountPart(res.text, arg.cfg), 1, Len(AmountPart(res.text, arg.cfg)) - n)

GroupedTail(n) ==
  SubSeq(AmountPart(res.text, arg.cfg), Len(AmountPart(res.text, arg.cfg)) - n + 1,
         Len(AmountPart(res.text, arg.cfg)))

\* C13: with a thousands separator the integer part is in groups counted
\* from the right, each of 3 digits but the first, which has 1 to 3, with one
\* separator between adjacent groups and none leading or trailing; without
\* the separators it is the ungrouped integer part; an integer part of 3 or
\* fewer digits and the fractional part are unchanged
C13_GroupsOfThree ==
  Grouped =>
    /\ Len(AmountPart(res.text, arg.cfg)) >= TailLen(m.currency.Scale) + 1
    /\ GroupedAs(GroupedHead(TailLen(m.currency.Scale)),
                 IntDigits(m.amount, MaxOf({0, m.currency.Scale})), arg.cfg.ThousandsSeparator)
    /\ FractionAs(GroupedTail(TailLen(m.currency.Scale)),
                  FracDigits(m.amount, MaxOf({0, m.currency.Scale})), arg.cfg.DecimalSeparator)
    /\ Len(IntDigits(m.amount, MaxOf({0, m.currency.Scale}))) <= 3
         => GroupedHead(TailLen(m.currency.Scale))
              = FormatUint(IntDigits(m.amount, MaxOf({0, m.currency.Scale})))

\* the smallest amount at scale 2: six groups of 3 behind a group of 2
C13_Witness ==
  /\ op = "Format"
  /\ m.amount = MinInt64
  /\ m.currency.Scale = 2
  /\ arg.cfg.ThousandsSeparator = <<".">>
  /\ arg.cfg.SymbolPosition = SymbolSuffix
  /\ res.err = "nil"
  /\ AmountPart(res.text, arg.cfg)
       = <<"9", "2", ".", "2", "3", "3", ".", "7", "2", "0", ".", "3", "6", "8", ".",
           "5", "4", "7", ".", "7", "5", "8", ",", "0", "8">>

(***************************************************************************)
(* The checked int64 primitives.                                           *)
(***************************************************************************)
\* the pair returned is (exact, true) for an exact result within int64 and
\* (_, false) for one outside
CheckedExact(exact) ==
  IF InInt64(exact) THEN res.err = "nil" /\ res.money.amount = exact
  ELSE res.err = "errOverflow"

\* C14: mulInt64 succeeds exactly when a*b is within [-2^63, 2^63-1] and
\* then returns a*b, and reports overflow otherwise; addInt64 does the same
\* for a+b
C14_CheckedExact ==
  /\ op = "mulInt64" => CheckedExact(IMul(m.amount, arg.k))
  /\ op = "addInt64" => CheckedExact(IAdd(m.amount, arg.k))

\* C14 for addInt64 alone
C14_AddExact == op = "addInt64" => CheckedExact(IAdd(m.amount, arg.k))

\* C14 for mulInt64, but for the products that are -2^63 with neither
\* factor 1: mulInt64 reports those as overflow
C14_MulExactAboveMin ==
  op = "mulInt64" =>
    IF IMul(m.amount, arg.k) = MinInt64 /\ ISmall(1) \notin {m.amount, arg.k}
    THEN res.err = "errOverflow"
    ELSE CheckedExact(IMul(m.amount, arg.k))

\* the smallest value times 1 has succeeded, and times -1 and times 2 have
\* been reported as overflow
C14_MinTimesOne ==
  (op = "mulInt64" /\ MinInt64 \in {m.amount, arg.k}) =>
    /\ ISmall(1) \in {m.amount, arg.k} => res.err = "nil" /\ res.money.amount = MinInt64
    /\ (ISmall(-1) \in {m.amount, arg.k} \/ ISmall(2) \in {m.amount, arg.k})
         => res.err = "errOverflow"

(***************************************************************************)
(* The percent adjustment by 0.                                            *)
(***************************************************************************)
ZeroPercent ==
  /\ op \in {"AddPercent", "SubtractPercent"}
  /\ arg.k = IZero
  /\ m.currency.Scale \in 0..17

\* C15: at the scales 0..17, AddPercent(0) and SubtractPercent(0) succeed
\* and return the same amount in the same currency, for every amount
C15_ZeroPercentIsIdentity == ZeroPercent => Returned(m.amount)

\* C15 for the amounts of 17 digits or fewer
C15_ZeroPercentIsIdentityTo17Digits ==
  (ZeroPercent /\ Len(m.amount.mag) <= 17) => Returned(m.amount)

\* an amount of 18 or 19 digits times the multiplier 1.00 has more digits
\* than a decimal holds, and the adjustment fails
C15_ZeroPercentFailsFrom18Digits ==
  (ZeroPercent /\ Len(m.amount.mag) >= 18) => Failed("ErrInvalidOperation")

(***************************************************************************)
(* Chains of operations.                                                   *)
(***************************************************************************)
\* what the Money method of a step returns on mm
StepOn(mm, s) ==
  CASE s.name = "Add" -> MoneyAdd(mm, s.x)
    [] s.name = "Sub" -> MoneySub(mm, s.x)
    [] s.name = "AddPercent" -> MoneyAddPercent(mm, s.k)
    [] OTHER -> MoneySubtractPercent(mm, s.k)

\* the steps from the i-th on applied in order to mm, up to the first one
\* that fails: its failure and a zero Money, or the last Money and no failure
RECURSIVE InOrder(_, _, _)
RECURSIVE InOrderAfter(_, _, _)
InOrder(mm, ss, i) ==
  IF i > Len(ss) THEN MoneyRes(mm, "nil") ELSE InOrderAfter(StepOn(mm, ss[i]), ss, i)

InOrderAfter(r, ss, i) ==
  IF r.err # "nil" THEN MoneyRes(NoMoney, r.err) ELSE InOrder(r.money, ss, i + 1)

\* the Pipe holds r's failure, or r's Money and no failure, and Result has
\* returned r: the failure and a zero Money, or the Money and no failure
HoldsAndReturns(r) ==
  /\ pipe.err = r.err
  /\ pipe.err = "nil" => pipe.money = r.money
  /\ op = "Result" => back = r

\* the Pipe and Result agree with the steps applied in order
AgreesInOrder == op \in {"Pipe", "Result"} => HoldsAndReturns(InOrder(m, steps, 1))

\* a step on a Pipe that holds a failure leaves the Pipe as it is
SkipsAfterFailure == (pipe.err # "nil" /\ steps' # steps) => pipe' = pipe

\* C12: once a step of a chain has failed every later step is skipped and
\* changes nothing, and Result returns the failure of the first failing
\* step with a zero Money; if no step fails, Result returns the Money of the
\* steps applied in order, and no failure
C12_ShortCircuit ==
  /\ []AgreesInOrder
  /\ [][SkipsAfterFailure]_vars

\* a chain on the largest amount whose first step overflowed, whose second
\* had an operand of another currency and whose third was a percentage
C12_Witness ==
  /\ op = "Result"
  /\ m.amount = MaxInt64
  /\ Len(steps) = 3
  /\ steps[1].name = "Add" /\ sameCurrency(steps[1].x.currency, m.currency)
  /\ steps[2].name = "Sub" /\ ~sameCurrency(steps[2].x.currency, m.currency)
  /\ steps[3].name = "AddPercent"
  /\ back = MoneyRes(NoMoney, "ErrInvalidOperation")

\* a chain of three steps none of which failed: the test's chain, and on
\* that 20 percent less
C12_WitnessNoFailure ==
  /\ op = "Result"
  /\ m.amount = ISmall(19990)
  /\ Len(steps) = 3
  /\ steps[1].name = "Add"
  /\ steps[2].name = "AddPercent" /\ steps[2].k = ISmall(20)
  /\ steps[3].name = "SubtractPercent"
  /\ back = MoneyRes(New(ISmall(26989), m.currency), "nil")

=============================================================================
